---- MODULE Spec2Model ----
(***************************************************************************)
(* Disk-backed B+ tree (src/bplustree.h, src/bplustree.cpp).               *)
(*                                                                         *)
(* The backing file is a sequence of pages; page p of the program is       *)
(* file[p + 1].  A page is a record tagged by what was last written to it: *)
(*   "H" header page, "L" leaf node, "I" internal node, "Z" zero-filled    *)
(*   page (allocatePage), "P" a trailing page shorter than PAGE_SIZE,      *)
(*   "X" stands for a path that open() refuses (say, a directory).         *)
(* Node arrays are modelled by their valid prefix (numKeys entries, and    *)
(* numKeys + 1 children): no operation of the program reads a slot beyond  *)
(* numKeys.  C indices are 0-based, sequence indices here are 1-based.     *)
(*                                                                         *)
(* Every public operation is one action.  Its body is the code's sequence  *)
(* of page reads and writes, threaded through a record st =                *)
(*   [file, hdr, ok, n, failAt, failed, ub, log]                           *)
(* (file, m_header, m_ok; n counts the I/O calls issued so far, failAt     *)
(* names the I/O call the environment makes fail, 0 for none; log lists    *)
(* the calls).  A lookup changes nothing: its result is the value of its   *)
(* operator in the current state.                                          *)
(***************************************************************************)
EXTENDS Integers, Sequences, FiniteSets, TLC

\* ---- program constants ----
PAGE_SIZE == 4096
MAGIC == 1112560689
\* 0xFFFFFFFF; TLC's integers are 32-bit signed, so the sentinel is written as
\* the signed reading of that bit pattern and compared for equality only
INVALID_PAGE == -1
LEAF == 1
INTERNAL == 0

\* ---- bounds of the model ----
\* Node capacities.  The source sets LEAF_MAX_KEYS = 30 and INTERNAL_MAX_KEYS =
\* 128 (bplustree.h:70-71); the model is checked with scaled-down capacities so
\* that leaf splits, internal splits and root growth all occur within the
\* explored key space.  Every formula below is stated in terms of these names.
LEAF_MAX_KEYS == 2
INTERNAL_MAX_KEYS == 2
\* keys are 1..MaxKey, values 1..MaxVal, the file never grows beyond MaxPages
MaxKey == 5
MaxVal == 2
MaxPages == 8
\* number of I/O calls the environment may make fail in one behaviour of SpecIO
MaxFaults == 1
\* SpecDeep also follows a client that starts from the tree left by the ascending
\* insertion of the keys 1..MaxKeyDeep - 1 and uses keys up to MaxKeyDeep and
\* values up to MaxValDeep in a file of at most MaxPagesDeep pages: there an
\* internal node that is not the root splits
MaxKeyDeep == 7
MaxValDeep == 1
MaxPagesDeep == 11

Keys == 1..MaxKey
Values == 1..MaxVal
\* range end points: the keys and the two ends of the (scaled) int32 range
INT_MIN == 0 - MaxKey - 1
INT_MAX == MaxKey + 1
Bounds == {INT_MIN} \cup Keys \cup {INT_MAX}

\* ---- pages ----
ZeroPage == [kind |-> "Z"]

HeaderPage(h) ==
    [kind |-> "H", magic |-> h.magic, pageSize |-> h.pageSize,
     rootPage |-> h.rootPage, freeListHead |-> h.freeListHead, rest |-> 0]

LeafPage(keys, values, nextLeaf) ==
    [kind |-> "L", numKeys |-> Len(keys), keys |-> keys, values |-> values,
     nextLeaf |-> nextLeaf]

InternalPage(keys, children) ==
    [kind |-> "I", numKeys |-> Len(keys), keys |-> keys, children |-> children]

\* NodeHeader.type as findLeafPage reads it from the first byte of the page
NodeType(page) ==
    CASE page.kind = "L" -> LEAF
      [] page.kind = "I" -> INTERNAL
      [] page.kind = "Z" -> 0
      [] OTHER -> page.magic % 256

\* ---- pager ----
\* number of whole pages in the file: lseek(SEEK_END) / PAGE_SIZE
FullPages(f) ==
    IF Len(f) > 0 /\ f[Len(f)].kind = "P" THEN Len(f) - 1 ELSE Len(f)

Tick(st, what, pageId, ok) ==
    [st EXCEPT !.n = @ + 1,
               !.failed = @ \/ ~ok,
               !.log = Append(@, <<what, pageId, ok>>)]

Injected(st) == st.failAt # 0 /\ st.n + 1 = st.failAt

readPage(st, pageId) ==
    IF Injected(st) \/ pageId = INVALID_PAGE \/ pageId >= FullPages(st.file)
    THEN [ok |-> FALSE, page |-> ZeroPage, st |-> Tick(st, "r", pageId, FALSE)]
    ELSE [ok |-> TRUE, page |-> st.file[pageId + 1], st |-> Tick(st, "r", pageId, TRUE)]

\* the file after a whole page is written at pageId (a gap reads as zeros)
PutPage(f, pageId, page) ==
    [i \in 1..(IF pageId + 1 > Len(f) THEN pageId + 1 ELSE Len(f)) |->
        IF i = pageId + 1 THEN page
        ELSE IF i <= Len(f) THEN f[i]
        ELSE ZeroPage]

writePageAs(st, what, pageId, page) ==
    IF Injected(st)
    THEN [ok |-> FALSE, st |-> Tick(st, what, pageId, FALSE)]
    ELSE [ok |-> TRUE,
          st |-> [Tick(st, what, pageId, TRUE) EXCEPT !.file = PutPage(st.file, pageId, page)]]

writePage(st, pageId, page) == writePageAs(st, "w", pageId, page)

\* allocatePage handing out the last page of the file again
allocatePageLast(st) ==
    LET pageId == FullPages(st.file) - 1
        w == writePageAs(st, "a", pageId, ZeroPage)
    IN  [pageId |-> IF w.ok THEN pageId ELSE INVALID_PAGE, st |-> w.st]

allocatePage(st) ==
    LET pageId == FullPages(st.file)
        w == writePageAs(st, "a", pageId, ZeroPage)
    IN  [pageId |-> IF w.ok THEN pageId ELSE INVALID_PAGE, st |-> w.st]

flushHeader(st) == writePageAs(st, "h", 0, HeaderPage(st.hdr))

\* ---- navigation ----
\* ChildIndex with the tie broken the other way: advance while key > keys[i]
RECURSIVE ChildIndexStrict(_, _, _)
ChildIndexStrict(inode, key, i) ==
    IF i < inode.numKeys /\ key > inode.keys[i + 1]
    THEN ChildIndexStrict(inode, key, i + 1)
    ELSE i

\* the loop of findLeafPage at an internal node: advance while key >= keys[i]
RECURSIVE ChildIndex(_, _, _)
ChildIndex(inode, key, i) ==
    IF i < inode.numKeys /\ key >= inode.keys[i + 1]
    THEN ChildIndex(inode, key, i + 1)
    ELSE i

\* findLeafPage from `page` on; path is returned whether or not the caller asked
\* for it.  A page that is neither a leaf nor a written internal node (a zero
\* page, the header page) sends the loop to page 0 and from there out of the
\* node's arrays or round again: ub.  fuel bounds the levels visited.
RECURSIVE Descend(_, _, _, _, _)
Descend(st, page, key, path, fuel) ==
    LET path2 == Append(path, page)
        r == readPage(st, page)
    IN  IF ~r.ok THEN [page |-> INVALID_PAGE, path |-> path2, st |-> r.st]
        ELSE IF NodeType(r.page) = LEAF
        THEN [page |-> page, path |-> path2, st |-> r.st]
        ELSE IF r.page.kind # "I" \/ fuel = 0
        THEN [page |-> INVALID_PAGE, path |-> path2, st |-> [r.st EXCEPT !.ub = TRUE]]
        ELSE Descend(r.st, r.page.children[ChildIndex(r.page, key, 0) + 1],
                     key, path2, fuel - 1)

findLeafPage(st, key) ==
    Descend(st, st.hdr.rootPage, key, <<>>, Len(st.file))

\* BSearch as a lower-bound search that never reports a hit
RECURSIVE BSearchNoHit(_, _, _, _)
BSearchNoHit(keys, key, lo, hi) ==
    IF lo < hi
    THEN LET mid == (lo + hi) \div 2
         IN  IF keys[mid + 1] < key THEN BSearchNoHit(keys, key, mid + 1, hi)
             ELSE BSearchNoHit(keys, key, lo, mid)
    ELSE [found |-> FALSE, index |-> lo]

\* binary search of searchInLeaf over keys[lo..hi)
RECURSIVE BSearch(_, _, _, _)
BSearch(keys, key, lo, hi) ==
    IF lo < hi
    THEN LET mid == (lo + hi) \div 2
         IN  IF keys[mid + 1] = key THEN [found |-> TRUE, index |-> mid]
             ELSE IF keys[mid + 1] < key THEN BSearch(keys, key, mid + 1, hi)
             ELSE BSearch(keys, key, lo, mid)
    ELSE [found |-> FALSE, index |-> lo]

searchInLeaf(leaf, key) == BSearch(leaf.keys, key, 0, leaf.numKeys)

\* ---- lookup ----
readData(st, key) ==
    LET f == findLeafPage(st, key)
    IN  IF ~st.ok THEN [ret |-> FALSE, out |-> <<>>, st |-> st]
        ELSE IF f.page = INVALID_PAGE THEN [ret |-> FALSE, out |-> <<>>, st |-> f.st]
        ELSE LET r == readPage(f.st, f.page)
             IN  IF ~r.ok THEN [ret |-> FALSE, out |-> <<>>, st |-> r.st]
                 ELSE LET s == searchInLeaf(r.page, key)
                      IN  IF ~s.found THEN [ret |-> FALSE, out |-> <<>>, st |-> r.st]
                          ELSE [ret |-> TRUE, out |-> <<r.page.values[s.index + 1]>>,
                                st |-> r.st]

\* ScanLeaf with the upper bound taken as exclusive
RECURSIVE ScanLeafExclusive(_, _, _, _, _)
ScanLeafExclusive(leaf, i, lowerKey, upperKey, result) ==
    IF i >= leaf.numKeys THEN [stop |-> FALSE, result |-> result]
    ELSE LET k == leaf.keys[i + 1]
         IN  IF k < lowerKey
             THEN ScanLeafExclusive(leaf, i + 1, lowerKey, upperKey, result)
             ELSE IF k >= upperKey THEN [stop |-> TRUE, result |-> result]
             ELSE ScanLeafExclusive(leaf, i + 1, lowerKey, upperKey,
                                    Append(result, leaf.values[i + 1]))

\* the for-loop of readRangeData over one leaf, from index i
\* stop: a key > upperKey was met and the function returned
RECURSIVE ScanLeaf(_, _, _, _, _)
ScanLeaf(leaf, i, lowerKey, upperKey, result) ==
    IF i >= leaf.numKeys THEN [stop |-> FALSE, result |-> result]
    ELSE LET k == leaf.keys[i + 1]
         IN  IF k < lowerKey THEN ScanLeaf(leaf, i + 1, lowerKey, upperKey, result)
             ELSE IF k > upperKey THEN [stop |-> TRUE, result |-> result]
             ELSE ScanLeaf(leaf, i + 1, lowerKey, upperKey,
                           Append(result, leaf.values[i + 1]))

\* the while-loop of readRangeData along nextLeaf.  A zero page read as a leaf
\* has numKeys = 0 and nextLeaf = 0.  The header page read as a leaf has
\* numKeys = pageSize, nextLeaf = freeListHead and keys[0] = 0: the scan returns
\* at once when 0 > upperKey and otherwise runs off the end of keys[]: ub.
\* A walk that comes round again (page 0 a zero page) never returns: ub.
RECURSIVE Walk(_, _, _, _, _, _)
Walk(st, leafPage, lowerKey, upperKey, result, fuel) ==
    IF leafPage = INVALID_PAGE THEN [out |-> result, st |-> st]
    ELSE LET r == readPage(st, leafPage)
         IN  IF ~r.ok THEN [out |-> result, st |-> r.st]
             ELSE IF fuel = 0
             THEN [out |-> result, st |-> [r.st EXCEPT !.ub = TRUE]]
             ELSE IF r.page.kind = "Z"
             THEN Walk(r.st, 0, lowerKey, upperKey, result, fuel - 1)
             ELSE IF r.page.kind = "H"
             THEN IF r.page.rest = 0 /\ r.page.pageSize > 0 /\ 0 > upperKey
                  THEN [out |-> result, st |-> r.st]
                  ELSE [out |-> result, st |-> [r.st EXCEPT !.ub = TRUE]]
             ELSE IF r.page.kind # "L"
             THEN [out |-> result, st |-> [r.st EXCEPT !.ub = TRUE]]
             ELSE LET s == ScanLeaf(r.page, 0, lowerKey, upperKey, result)
                  IN  IF s.stop THEN [out |-> s.result, st |-> r.st]
                      ELSE Walk(r.st, r.page.nextLeaf, lowerKey, upperKey,
                                s.result, fuel - 1)

readRangeData(st, lowerKey, upperKey) ==
    LET f == findLeafPage(st, lowerKey)
    IN  IF ~st.ok THEN [out |-> <<>>, st |-> st]
        ELSE IF f.page = INVALID_PAGE THEN [out |-> <<>>, st |-> f.st]
        ELSE Walk(f.st, f.page, lowerKey, upperKey, <<>>, Len(st.file) + 1)

\* ---- arrays ----
\* the slots the node structs and the temporary split arrays declare
LeafSlots == 0..(LEAF_MAX_KEYS - 1)
TmpLeafSlots == 0..LEAF_MAX_KEYS
KeySlots == 0..(INTERNAL_MAX_KEYS - 1)
ChildSlots == 0..INTERNAL_MAX_KEYS
TmpKeySlots == 0..INTERNAL_MAX_KEYS
TmpChildSlots == 0..(INTERNAL_MAX_KEYS + 1)

\* an access outside the declared slots is undefined behaviour
Mark(st, inBounds) == IF inBounds THEN st ELSE [st EXCEPT !.ub = TRUE]

\* slots of keys[] and values[] that the shift loops touch when an entry is
\* put at idx into (removed at idx from) an array holding numKeys entries
ShiftRightSlots(numKeys, idx) == idx..numKeys

ShiftLeftSlots(numKeys, idx) == idx..(numKeys - 1)

\* slots the leaf split touches: the temporary arrays, then the two leaves
LeafSplitInBounds(numKeys, idx, split) ==
    /\ 0..(numKeys - 1) \subseteq LeafSlots
    /\ ShiftRightSlots(numKeys, idx) \subseteq TmpLeafSlots
    /\ 0..(split - 1) \subseteq LeafSlots
    /\ 0..(numKeys - split) \subseteq LeafSlots

\* slots Case 2 of insertInParent touches
ParentInsertInBounds(numKeys, idxChild) ==
    /\ ShiftRightSlots(numKeys, idxChild) \subseteq KeySlots
    /\ ShiftRightSlots(numKeys + 1, idxChild + 1) \subseteq ChildSlots

\* slots Case 3 of insertInParent touches
ParentSplitInBounds(numKeys, idxChild, mid) ==
    /\ 0..(numKeys - 1) \subseteq KeySlots
    /\ 0..numKeys \subseteq ChildSlots
    /\ ShiftRightSlots(numKeys, idxChild) \subseteq TmpKeySlots
    /\ ShiftRightSlots(numKeys + 1, idxChild + 1) \subseteq TmpChildSlots
    /\ mid \in TmpKeySlots
    /\ 0..(mid - 1) \subseteq KeySlots
    /\ 0..mid \subseteq ChildSlots
    /\ 0..(numKeys - mid - 1) \subseteq KeySlots
    /\ 0..(numKeys - mid) \subseteq ChildSlots
    /\ numKeys + 1 \in TmpChildSlots

\* ---- insertion ----
InsertAt(seq, idx, x) ==
    SubSeq(seq, 1, idx) \o <<x>> \o SubSeq(seq, idx + 1, Len(seq))

\* RemoveAt dropping the last entry instead of entry idx
RemoveLast(seq, idx) == SubSeq(seq, 1, Len(seq) - 1)

RemoveAt(seq, idx) ==
    SubSeq(seq, 1, idx) \o SubSeq(seq, idx + 2, Len(seq))

\* LeafSplitPoint rounding up: the larger half stays in the existing leaf
LeafSplitPointCeil(total) == (total + 1) \div 2

\* where the leaf split cuts the total = numKeys + 1 temporary pairs
LeafSplitPoint(total) == total \div 2

\* LinkLeaves copying leaf.nextLeaf into the new leaf after it was overwritten
LinkLeavesLate(oldNext, newPage) == <<newPage, newPage>>

\* the nextLeaf pointers written by a leaf split: <<left.nextLeaf, right.nextLeaf>>
LinkLeaves(oldNext, newPage) == <<newPage, oldNext>>

\* PromotedKey taking the last key of the new leaf
PromotedKeyLast(newLeaf) == newLeaf.keys[newLeaf.numKeys]

\* the separator a leaf split hands to the parent: the first key of the new leaf
PromotedKey(newLeaf) == newLeaf.keys[1]

\* LeafHasRoom letting a full leaf take one more pair
LeafHasRoomOffByOne(leaf) == leaf.numKeys <= LEAF_MAX_KEYS

\* the capacity test of insertInLeaf
LeafHasRoom(leaf) == leaf.numKeys < LEAF_MAX_KEYS

\* what insertInLeaf hands back: its return value and its two out-parameters
LeafResult(ok, promotedKey, newRightPage, st) ==
    [ok |-> ok, promotedKey |-> promotedKey, newRightPage |-> newRightPage, st |-> st]

insertInLeaf(st, leafPage, key, value) ==
    LET r == readPage(st, leafPage)
        leaf == r.page
        s == searchInLeaf(leaf, key)
        idx == s.index
    IN  IF ~r.ok THEN LeafResult(FALSE, 0, INVALID_PAGE, r.st)
        ELSE IF s.found
        THEN LET w == writePage(r.st, leafPage,
                        [leaf EXCEPT !.values[idx + 1] = value])
             IN  LeafResult(w.ok, 0, INVALID_PAGE, w.st)
        ELSE IF LeafHasRoom(leaf)
        THEN LET w == writePage(Mark(r.st, ShiftRightSlots(leaf.numKeys, idx)
                                              \subseteq LeafSlots),
                        leafPage,
                        LeafPage(InsertAt(leaf.keys, idx, key),
                                 InsertAt(leaf.values, idx, value), leaf.nextLeaf))
             IN  LeafResult(w.ok, 0, INVALID_PAGE, w.st)
        ELSE LET tmpKeys == InsertAt(leaf.keys, idx, key)
                 tmpValues == InsertAt(leaf.values, idx, value)
                 total == leaf.numKeys + 1
                 split == LeafSplitPoint(total)
                 a == allocatePage(Mark(r.st, LeafSplitInBounds(leaf.numKeys, idx, split)))
                 newPage == a.pageId
                 link == LinkLeaves(leaf.nextLeaf, newPage)
                 left == LeafPage(SubSeq(tmpKeys, 1, split),
                                  SubSeq(tmpValues, 1, split), link[1])
                 newLeaf == LeafPage(SubSeq(tmpKeys, split + 1, total),
                                     SubSeq(tmpValues, split + 1, total), link[2])
                 w1 == writePage(a.st, leafPage, left)
                 w2 == writePage(w1.st, newPage, newLeaf)
                 promotedKey == PromotedKey(newLeaf)
             IN  IF newPage = INVALID_PAGE THEN LeafResult(FALSE, 0, INVALID_PAGE, a.st)
                 ELSE IF ~w1.ok THEN LeafResult(FALSE, promotedKey, newPage, w1.st)
                 ELSE IF ~w2.ok THEN LeafResult(FALSE, promotedKey, newPage, w2.st)
                 ELSE LeafResult(TRUE, promotedKey, newPage, w2.st)

\* index of leftPage among parent.children[0..numKeys] (numKeys + 1 if absent)
RECURSIVE FindChild(_, _, _)
FindChild(parent, leftPage, i) ==
    IF i <= parent.numKeys /\ parent.children[i + 1] # leftPage
    THEN FindChild(parent, leftPage, i + 1)
    ELSE i

\* FindInPath answering with the last position of the path, the splitting
\* child's, so that the path handed upward is no shorter
FindInPathEnd(path, page, i) == Len(path)

\* std::find(path.begin(), path.end(), page): 1-based position, 0 if absent
RECURSIVE FindInPath(_, _, _)
FindInPath(path, page, i) ==
    IF i > Len(path) THEN 0
    ELSE IF path[i] = page THEN i
    ELSE FindInPath(path, page, i + 1)

\* newRoot leaving the header page as it was
newRootNoFlush(st, leftPage, key, rightPage) ==
    LET a == allocatePage(st)
        w == writePage(a.st, a.pageId, InternalPage(<<key>>, <<leftPage, rightPage>>))
    IN  IF a.pageId = INVALID_PAGE THEN [ok |-> FALSE, st |-> a.st]
        ELSE IF ~w.ok THEN [ok |-> FALSE, st |-> w.st]
        ELSE [ok |-> TRUE, st |-> [w.st EXCEPT !.hdr.rootPage = a.pageId]]

\* newRoot flushing the header before the new root page is written
newRootFlushFirst(st, leftPage, key, rightPage) ==
    LET a == allocatePage(st)
        h == flushHeader([a.st EXCEPT !.hdr.rootPage = a.pageId])
        w == writePage(h.st, a.pageId, InternalPage(<<key>>, <<leftPage, rightPage>>))
    IN  IF a.pageId = INVALID_PAGE THEN [ok |-> FALSE, st |-> a.st]
        ELSE IF ~h.ok THEN [ok |-> FALSE, st |-> h.st]
        ELSE [ok |-> w.ok, st |-> w.st]

\* Case 1 and the root branch of Case 3: a new root over leftPage and rightPage
newRoot(st, leftPage, key, rightPage) ==
    LET a == allocatePage(st)
        w == writePage(a.st, a.pageId, InternalPage(<<key>>, <<leftPage, rightPage>>))
        st2 == [w.st EXCEPT !.hdr.rootPage = a.pageId]
        h == flushHeader(st2)
    IN  IF a.pageId = INVALID_PAGE THEN [ok |-> FALSE, st |-> a.st]
        ELSE IF ~w.ok THEN [ok |-> FALSE, st |-> w.st]
        ELSE [ok |-> h.ok, st |-> h.st]

\* InternalSplitPoint rounding up
InternalSplitPointCeil(total) == (total + 1) \div 2

\* where the internal split cuts the total = numKeys + 1 temporary keys
InternalSplitPoint(total) == total \div 2

\* insertInParent putting every promoted key into the root node, whatever the
\* level of the page that split
insertInParentAtRoot(st, path, leftPage, key, rightPage) ==
    IF Len(path) = 1 /\ path[1] = st.hdr.rootPage
    THEN newRoot(st, leftPage, key, rightPage)
    ELSE IF Len(path) < 2 THEN [ok |-> FALSE, st |-> st]
    ELSE LET r == readPage(st, path[1])
             i == ChildIndex(r.page, key, 0)
             w == writePage(r.st, path[1],
                            InternalPage(InsertAt(r.page.keys, i, key),
                                         InsertAt(r.page.children, i + 1, rightPage)))
         IN  IF ~r.ok \/ r.page.kind # "I" THEN [ok |-> FALSE, st |-> r.st]
             ELSE [ok |-> w.ok, st |-> w.st]

RECURSIVE insertInParent(_, _, _, _, _)
insertInParent(st, path, leftPage, key, rightPage) ==
    IF Len(path) = 1 /\ path[1] = st.hdr.rootPage
    THEN newRoot(st, leftPage, key, rightPage)
    ELSE IF Len(path) < 2 THEN [ok |-> FALSE, st |-> st]
    ELSE
    LET parentPage == path[Len(path) - 1]
        r == readPage(st, parentPage)
        parent == r.page
    IN  IF ~r.ok THEN [ok |-> FALSE, st |-> r.st]
        ELSE IF parent.kind # "I" THEN [ok |-> FALSE, st |-> [r.st EXCEPT !.ub = TRUE]]
        ELSE
        LET idxChild == FindChild(parent, leftPage, 0)
            tmpKeys == InsertAt(parent.keys, idxChild, key)
            tmpChildren == InsertAt(parent.children, idxChild + 1, rightPage)
        IN  IF idxChild > parent.numKeys THEN [ok |-> FALSE, st |-> r.st]
            ELSE IF parent.numKeys < INTERNAL_MAX_KEYS
            THEN LET w == writePage(Mark(r.st, ParentInsertInBounds(parent.numKeys, idxChild)),
                                    parentPage, InternalPage(tmpKeys, tmpChildren))
                 IN  [ok |-> w.ok, st |-> w.st]
            ELSE
            LET total == parent.numKeys + 1
                mid == InternalSplitPoint(total)
                midKey == tmpKeys[mid + 1]
                left == InternalPage(SubSeq(tmpKeys, 1, mid),
                                     SubSeq(tmpChildren, 1, mid + 1))
                newParent == InternalPage(SubSeq(tmpKeys, mid + 2, total),
                                          SubSeq(tmpChildren, mid + 2, total + 1))
                a == allocatePage(Mark(r.st, ParentSplitInBounds(parent.numKeys, idxChild, mid)))
                newPage == a.pageId
                w1 == writePage(a.st, parentPage, left)
                w2 == writePage(w1.st, newPage, newParent)
                it == FindInPath(path, parentPage, 1)
            IN  IF newPage = INVALID_PAGE THEN [ok |-> FALSE, st |-> a.st]
                ELSE IF ~w1.ok THEN [ok |-> FALSE, st |-> w1.st]
                ELSE IF ~w2.ok THEN [ok |-> FALSE, st |-> w2.st]
                ELSE IF parentPage = w2.st.hdr.rootPage
                THEN newRoot(w2.st, parentPage, midKey, newPage)
                ELSE IF it = 0 \/ it = 1 THEN [ok |-> FALSE, st |-> w2.st]
                ELSE insertInParent(w2.st, SubSeq(path, 1, it), parentPage, midKey, newPage)

writeData(st, key, data) ==
    LET f == findLeafPage(st, key)
    IN  IF ~st.ok THEN [ret |-> FALSE, st |-> st]
        ELSE IF f.page = INVALID_PAGE THEN [ret |-> FALSE, st |-> f.st]
        ELSE LET l == insertInLeaf(f.st, f.page, key, data)
             IN  IF ~l.ok THEN [ret |-> FALSE, st |-> l.st]
                 ELSE IF l.newRightPage # INVALID_PAGE
                 THEN LET p == insertInParent(l.st, f.path, f.page,
                                              l.promotedKey, l.newRightPage)
                      IN  [ret |-> p.ok, st |-> p.st]
                 ELSE [ret |-> TRUE, st |-> l.st]

\* ---- deletion ----
\* deleteFromLeaf writing the leaf back also when the key is not in it
deleteFromLeafRewrite(st, leafPage, key) ==
    LET r == readPage(st, leafPage)
        leaf == r.page
        s == searchInLeaf(leaf, key)
    IN  IF ~r.ok THEN [ret |-> FALSE, st |-> r.st]
        ELSE IF ~s.found THEN [ret |-> FALSE, st |-> writePage(r.st, leafPage, leaf).st]
        ELSE LET w == writePage(r.st, leafPage,
                        LeafPage(RemoveAt(leaf.keys, s.index),
                                 RemoveAt(leaf.values, s.index), leaf.nextLeaf))
             IN  [ret |-> w.ok, st |-> w.st]

deleteFromLeaf(st, leafPage, key) ==
    LET r == readPage(st, leafPage)
        leaf == r.page
        s == searchInLeaf(leaf, key)
    IN  IF ~r.ok THEN [ret |-> FALSE, st |-> r.st]
        ELSE IF ~s.found THEN [ret |-> FALSE, st |-> r.st]
        ELSE LET w == writePage(Mark(r.st, ShiftLeftSlots(leaf.numKeys, s.index)
                                              \subseteq LeafSlots),
                        leafPage,
                        LeafPage(RemoveAt(leaf.keys, s.index),
                                 RemoveAt(leaf.values, s.index), leaf.nextLeaf))
             IN  [ret |-> w.ok, st |-> w.st]

deleteData(st, key) ==
    LET f == findLeafPage(st, key)
    IN  IF ~st.ok THEN [ret |-> FALSE, st |-> st]
        ELSE IF f.page = INVALID_PAGE THEN [ret |-> FALSE, st |-> f.st]
        ELSE deleteFromLeaf(f.st, f.page, key)

\* ---- lifecycle ----
ZeroHeader == [magic |-> 0, pageSize |-> 0, rootPage |-> 0, freeListHead |-> 0]

FreshHeader ==
    [magic |-> MAGIC, pageSize |-> PAGE_SIZE, rootPage |-> 1,
     freeListHead |-> INVALID_PAGE]

\* m_header has no initializer: until initEmptyTree or loadHeader assigns it, it
\* holds whatever the memory held
IndeterminateHeaders == {ZeroHeader, FreshHeader}

\* initEmptyTree without the closing flushHeader
initEmptyTreeNoFlush(st) ==
    LET h0 == [magic |-> MAGIC, pageSize |-> PAGE_SIZE, rootPage |-> 0,
               freeListHead |-> INVALID_PAGE]
        w0 == writePage([st EXCEPT !.hdr = h0], 0, HeaderPage(h0))
    IN  writePage([w0.st EXCEPT !.hdr.rootPage = 1], 1,
                  LeafPage(<<>>, <<>>, INVALID_PAGE)).st

\* the results of the three writes are ignored
initEmptyTree(st) ==
    LET h0 == [magic |-> MAGIC, pageSize |-> PAGE_SIZE, rootPage |-> 0,
               freeListHead |-> INVALID_PAGE]
        w0 == writePage([st EXCEPT !.hdr = h0], 0, HeaderPage(h0))
        w1 == writePage([w0.st EXCEPT !.hdr.rootPage = 1], 1,
                        LeafPage(<<>>, <<>>, INVALID_PAGE))
    IN  flushHeader(w1.st).st

\* HeaderOf taking the root to be page 1 whatever the file says
HeaderOfRootOne(page) ==
    IF page.kind = "H"
    THEN [magic |-> page.magic, pageSize |-> page.pageSize,
          rootPage |-> 1, freeListHead |-> page.freeListHead]
    ELSE ZeroHeader

\* the bytes of page 0 copied over m_header
HeaderOf(page) ==
    IF page.kind = "H"
    THEN [magic |-> page.magic, pageSize |-> page.pageSize,
          rootPage |-> page.rootPage, freeListHead |-> page.freeListHead]
    ELSE ZeroHeader

\* loadHeader checking the magic only
loadHeaderMagicOnly(st) ==
    LET r == readPage(st, 0)
        st2 == [r.st EXCEPT !.hdr = HeaderOf(r.page)]
    IN  IF ~r.ok THEN [ok |-> FALSE, st |-> r.st]
        ELSE IF st2.hdr.magic # MAGIC THEN [ok |-> FALSE, st |-> st2]
        ELSE [ok |-> TRUE, st |-> st2]

loadHeader(st) ==
    LET r == readPage(st, 0)
        st2 == [r.st EXCEPT !.hdr = HeaderOf(r.page)]
    IN  IF ~r.ok THEN [ok |-> FALSE, st |-> r.st]
        ELSE IF st2.hdr.magic # MAGIC \/ st2.hdr.pageSize # PAGE_SIZE
        THEN [ok |-> FALSE, st |-> st2]
        ELSE [ok |-> TRUE, st |-> st2]

\* the constructor after openFile succeeded
construct(st) ==
    IF Len(st.file) = 0
    THEN [ok |-> TRUE, st |-> initEmptyTree(st)]
    ELSE loadHeader(st)

\* ---- state ----
VARIABLES
    file,        \* the backing file: a sequence of pages
    alive,       \* a BPlusTree object exists (constructed and not yet destroyed)
    m_fd,        \* its descriptor: 3 when open, -1 when not
    m_ok,
    m_header,
    faultsLeft,  \* I/O calls the environment may still make fail
    model,       \* history: key -> last value written and not deleted (0: none)
    damaged,     \* history: an I/O call of a mutating operation has failed
    ub,          \* a call ran into undefined behaviour or does not return
    limits       \* the client of this behaviour: its largest key and value, its
                 \* page budget

vars == <<file, alive, m_fd, m_ok, m_header, faultsLeft, model, damaged, ub, limits>>

\* the keys and the range end points the client of this behaviour uses
KeysOf(l) == 1..l.maxKey

ValuesOf(l) == 1..l.maxVal

BoundsOf(l) == {0 - l.maxKey - 1} \cup KeysOf(l) \cup {l.maxKey + 1}

PartialPage == [kind |-> "P"]

BadMagicPage ==
    [kind |-> "H", magic |-> MAGIC + 1, pageSize |-> PAGE_SIZE, rootPage |-> 1,
     freeListHead |-> INVALID_PAGE, rest |-> 1]

BadPageSizePage ==
    [kind |-> "H", magic |-> MAGIC, pageSize |-> PAGE_SIZE \div 2, rootPage |-> 1,
     freeListHead |-> INVALID_PAGE, rest |-> 0]

Unopenable == <<[kind |-> "X"]>>

\* the files a tree is first constructed on: absent or empty, shorter than one
\* page, one page with a wrong magic or a wrong page size, and a path that
\* cannot be opened
InitialFiles ==
    { <<>>, <<PartialPage>>, <<BadMagicPage>>, <<BadPageSizePage>>, Unopenable }

\* BPlusTree::openFile: the descriptor, -1 when open() fails
openFile(f) == IF f = Unopenable THEN -1 ELSE 3

\* the tree as a call finds it; f is the I/O call that will fail (0: none)
St(f) ==
    [file |-> file, hdr |-> m_header, ok |-> m_ok, n |-> 0, failAt |-> f,
     failed |-> FALSE, ub |-> FALSE, log |-> <<>>]

InitWith(faults) ==
    /\ file \in InitialFiles
    /\ alive = FALSE
    /\ m_fd = -1
    /\ m_ok = FALSE
    /\ m_header = ZeroHeader
    /\ faultsLeft = faults
    /\ model = [k \in Keys |-> 0]
    /\ damaged = FALSE
    /\ ub = FALSE
    /\ limits = [maxKey |-> MaxKey, maxVal |-> MaxVal, maxPages |-> MaxPages]

Init == InitWith(0)

InitIO == InitWith(MaxFaults)

\* A behaviour is followed up to and including the first call in which an I/O
\* call of a mutating operation fails, or which does not return normally
Halted == ub \/ damaged

\* the I/O calls of an operation that may be made to fail: any one of the n0
\* calls of its undisturbed run, or none
FaultPoints(n0) == IF faultsLeft > 0 THEN 0..n0 ELSE {0}

\* the pages on the way from page p down to a leaf
RECURSIVE Levels(_, _, _)
Levels(f, p, fuel) ==
    IF p < 0 \/ p >= Len(f) THEN 1
    ELSE IF f[p + 1].kind # "I" \/ fuel = 0 THEN 1
    ELSE 1 + Levels(f, f[p + 1].children[1], fuel - 1)

\* No call makes more I/O calls than these. The descent reads one page a
\* level; readData and deleteData read the leaf again and deleteData writes
\* it; readRangeData reads leaves along the chain; writeData reads the leaf,
\* then allocates and writes two pages, does at most as much at each
\* internal level (a read, an allocation, two writes), and for a new root
\* allocates, writes and flushes the header; the constructor makes the four
\* calls of initEmptyTree or the one of loadHeader.
DescentCalls == Levels(file, m_header.rootPage, Len(file))

ConstructCalls == 4

ReadCalls == DescentCalls + 1

DeleteCalls == DescentCalls + 2

WriteCalls == 5 * DescentCalls + 3

RangeCalls == DescentCalls + Len(file)

\* the effect of a call on the file, the cached header and the history; the
\* call f that fails is one the operation makes (st.n counts them)
Commit(st, f, mutating) ==
    /\ f <= st.n
    /\ Len(st.file) <= limits.maxPages
    /\ file' = st.file
    /\ m_header' = st.hdr
    /\ faultsLeft' = IF f > 0 THEN faultsLeft - 1 ELSE faultsLeft
    /\ damaged' = (damaged \/ (mutating /\ st.failed))
    /\ ub' = st.ub

\* BPlusTree::BPlusTree; h0 is what m_header holds before it is assigned
ConstructStep(h0) ==
    /\ ~alive /\ ~Halted
    /\ alive' = TRUE
    /\ m_fd' = openFile(file)
    /\ UNCHANGED <<model, limits>>
    /\ IF openFile(file) < 0
       THEN /\ m_ok' = FALSE /\ m_header' = h0
            /\ UNCHANGED <<file, faultsLeft, damaged, ub>>
       ELSE LET s0 == [St(0) EXCEPT !.hdr = h0, !.ok = TRUE]
            IN  \E f \in FaultPoints(ConstructCalls) :
                  LET c == construct([s0 EXCEPT !.failAt = f])
                  IN  /\ m_ok' = c.ok
                      /\ Commit(c.st, f, Len(file) = 0 \/ f > 0)

Construct == \E h0 \in IndeterminateHeaders : ConstructStep(h0)

\* BPlusTree::~BPlusTree
Destroy ==
    /\ alive /\ ~Halted
    /\ alive' = FALSE
    /\ m_fd' = -1
    /\ m_ok' = FALSE
    /\ UNCHANGED <<model, limits>>
    /\ IF m_fd >= 0
       THEN \E f \in FaultPoints(1) :
              Commit([flushHeader(St(f)).st EXCEPT !.hdr = ZeroHeader], f, TRUE)
       ELSE /\ m_header' = ZeroHeader
            /\ UNCHANGED <<file, faultsLeft, damaged, ub>>

WriteStep(key, data) ==
    /\ alive /\ ~Halted
    /\ UNCHANGED <<alive, m_fd, m_ok, limits>>
    /\ \E f \in FaultPoints(WriteCalls) :
         LET w == writeData(St(f), key, data)
         IN  /\ Commit(w.st, f, TRUE)
             /\ model' = IF w.ret THEN [model EXCEPT ![key] = data] ELSE model

WriteData == \E key \in KeysOf(limits), data \in ValuesOf(limits) : WriteStep(key, data)

DeleteStep(key) ==
    /\ alive /\ ~Halted
    /\ UNCHANGED <<alive, m_fd, m_ok, limits>>
    /\ \E f \in FaultPoints(DeleteCalls) :
         LET d == deleteData(St(f), key)
         IN  /\ Commit(d.st, f, TRUE)
             /\ model' = IF d.ret THEN [model EXCEPT ![key] = 0] ELSE model

DeleteData == \E key \in KeysOf(limits) : DeleteStep(key)

ReadData ==
    /\ alive /\ ~Halted
    /\ UNCHANGED <<alive, m_fd, m_ok, model, limits>>
    /\ \E key \in KeysOf(limits) :
         \E f \in FaultPoints(ReadCalls) :
            Commit(readData(St(f), key).st, f, FALSE)

ReadRangeData ==
    /\ alive /\ ~Halted
    /\ UNCHANGED <<alive, m_fd, m_ok, model, limits>>
    /\ \E lowerKey \in BoundsOf(limits), upperKey \in BoundsOf(limits) :
         \E f \in FaultPoints(RangeCalls) :
            Commit(readRangeData(St(f), lowerKey, upperKey).st, f, FALSE)

Next ==
    \/ Construct
    \/ Destroy
    \/ WriteData
    \/ DeleteData
    \/ ReadData
    \/ ReadRangeData

Spec == Init /\ [][Next]_vars

SpecIO == InitIO /\ [][Next]_vars

\* the tree after writeData(k, 1) for k = from..last, in ascending order
\* (each intermediate tree is bound as a value before the next call uses it)
RECURSIVE InsertAscending(_, _, _)
InsertAscending(st, from, last) ==
    IF from > last THEN st
    ELSE CHOOSE r \in {InsertAscending(t, from + 1, last) :
                          t \in {writeData(st, from, 1).st}} : TRUE

\* the file a tree leaves that was constructed on an empty file, was given the
\* keys 1..last in ascending order, and was destroyed
PrebuiltFile(last) ==
    LET s0 == [file |-> <<>>, hdr |-> ZeroHeader, ok |-> TRUE, n |-> 0, failAt |-> 0,
               failed |-> FALSE, ub |-> FALSE, log |-> <<>>]
    IN  CHOOSE f \in {flushHeader(t).st.file :
                         t \in {InsertAscending(c, 1, last) :
                                   c \in {construct(s0).st}}} : TRUE

InitPrebuilt ==
    /\ file = PrebuiltFile(MaxKeyDeep - 1)
    /\ alive = FALSE
    /\ m_fd = -1
    /\ m_ok = FALSE
    /\ m_header = ZeroHeader
    /\ faultsLeft = 0
    /\ model = [k \in 1..MaxKeyDeep |-> IF k < MaxKeyDeep THEN 1 ELSE 0]
    /\ damaged = FALSE
    /\ ub = FALSE
    /\ limits = [maxKey |-> MaxKeyDeep, maxVal |-> MaxValDeep, maxPages |-> MaxPagesDeep]

InitDeep == Init \/ InitPrebuilt

SpecDeep == InitDeep /\ [][Next]_vars

\* ---- the tree as a structure (used to state the properties) ----
\* the tree as a call finds it when the object holds header h over file f
StOf(f, h, ok) ==
    [file |-> f, hdr |-> h, ok |-> ok, n |-> 0, failAt |-> 0,
     failed |-> FALSE, ub |-> FALSE, log |-> <<>>]

IsPage(f, p) == p >= 0 /\ p < Len(f)

SeqRange(q) == {q[i] : i \in 1..Len(q)}

\* the leaves below page p, left to right
RECURSIVE LeavesUnder(_, _, _)
RECURSIVE LeavesOfChildren(_, _, _, _)
LeavesUnder(f, p, fuel) ==
    IF ~IsPage(f, p) \/ fuel = 0 THEN <<>>
    ELSE IF f[p + 1].kind = "L" THEN <<p>>
    ELSE IF f[p + 1].kind = "I" THEN LeavesOfChildren(f, f[p + 1].children, 1, fuel - 1)
    ELSE <<>>

LeavesOfChildren(f, ch, i, fuel) ==
    IF i > Len(ch) THEN <<>>
    ELSE LeavesUnder(f, ch[i], fuel) \o LeavesOfChildren(f, ch, i + 1, fuel)

\* the internal nodes at and below page p
RECURSIVE InternalsUnder(_, _, _)
InternalsUnder(f, p, fuel) ==
    IF ~IsPage(f, p) \/ fuel = 0 THEN {}
    ELSE IF f[p + 1].kind = "I"
    THEN {p} \cup UNION {InternalsUnder(f, f[p + 1].children[i], fuel - 1) :
                            i \in 1..Len(f[p + 1].children)}
    ELSE {}

\* the keys stored in the leaves below page p
KeysUnder(f, p) ==
    UNION {SeqRange(f[q + 1].keys) : q \in SeqRange(LeavesUnder(f, p, Len(f)))}

\* the pages visited by following nextLeaf from leaf p
RECURSIVE Chain(_, _, _)
Chain(f, p, fuel) ==
    IF ~IsPage(f, p) \/ fuel = 0 THEN <<>>
    ELSE IF f[p + 1].kind # "L" THEN <<>>
    ELSE <<p>> \o Chain(f, f[p + 1].nextLeaf, fuel - 1)

\* the keys of the leaves of a sequence of pages, in that order
RECURSIVE KeysAlong(_, _, _)
KeysAlong(f, pages, i) ==
    IF i > Len(pages) THEN <<>>
    ELSE f[pages[i] + 1].keys \o KeysAlong(f, pages, i + 1)

StrictlyAscending(q) == \A i \in 1..(Len(q) - 1) : q[i] < q[i + 1]

\* levels from page p down to its leftmost leaf
RECURSIVE Height(_, _, _)
Height(f, p, fuel) ==
    IF ~IsPage(f, p) \/ fuel = 0 THEN 0
    ELSE IF f[p + 1].kind = "I" THEN 1 + Height(f, f[p + 1].children[1], fuel - 1)
    ELSE 1

TreeHeight == Height(file, m_header.rootPage, Len(file))

\* a tree that is up and has met no failure
Sound == alive /\ m_ok /\ ~damaged /\ ~ub

\* the leaf entries with key k, over all leaves of the file
EntryCount(f, k) ==
    Cardinality({<<p, i>> \in (1..Len(f)) \X (1..LEAF_MAX_KEYS) :
                    /\ f[p].kind = "L" /\ i <= f[p].numKeys /\ f[p].keys[i] = k})

\* what the history says a lookup of k returns
Expected(k) ==
    IF model[k] = 0 THEN [ret |-> FALSE, out |-> <<>>]
    ELSE [ret |-> TRUE, out |-> <<model[k]>>]

Answer(r) == [ret |-> r.ret, out |-> r.out]

\* the values of the live keys in [lo, hi] from key k on, in ascending key order
RECURSIVE ExpectedRange(_, _, _, _)
ExpectedRange(m, lo, hi, k) ==
    IF k > MaxKey THEN <<>>
    ELSE IF m[k] # 0 /\ lo <= k /\ k <= hi
    THEN <<m[k]>> \o ExpectedRange(m, lo, hi, k + 1)
    ELSE ExpectedRange(m, lo, hi, k + 1)

LiveKeys == {k \in Keys : model[k] # 0}

\* C1: Round trip.  On a tree built by successful writeData/deleteData calls
\* (leaf splits, internal splits and root growth included), every key whose
\* last successful modification was writeData(k, v) is found by readData(k),
\* which returns true and yields exactly v.
RoundTrip ==
    Sound => \A k \in Keys :
        model[k] # 0 => Answer(readData(St(0), k)) = [ret |-> TRUE, out |-> <<model[k]>>]

\* a tree of three levels (an internal split and two root growths behind it) in
\* which a written key is read back
RoundTripWitness ==
    /\ Sound /\ TreeHeight >= 3
    /\ \E k \in Keys : model[k] = MaxVal /\ readData(St(0), k).out = <<MaxVal>>

\* C2: Range scan.  On a tree built by successful writeData/deleteData calls
\* (deletes that empty a leaf included), readRangeData(lo, hi) returns exactly
\* the values of the live keys in [lo, hi], one per key, in ascending key
\* order; over [INT_MIN, INT_MAX] as many entries as there are live keys; and
\* nothing when no live key lies in the range (lo > hi included).
RangeScan ==
    Sound => \A lo \in Bounds, hi \in Bounds :
        LET out == readRangeData(St(0), lo, hi).out
        IN  /\ out = ExpectedRange(model, lo, hi, 1)
            /\ (lo = INT_MIN /\ hi = INT_MAX => Len(out) = Cardinality(LiveKeys))
            /\ ({k \in LiveKeys : lo <= k /\ k <= hi} = {} => out = <<>>)

\* some leaf of the chain is empty, with live keys in leaves on both sides of it
HasEmptyLeafBetween ==
    LET ch == Chain(file, findLeafPage(St(0), INT_MIN).page, Len(file))
    IN  \E i, j, l \in 1..Len(ch) :
            /\ i < j /\ j < l
            /\ file[ch[i] + 1].numKeys > 0
            /\ file[ch[j] + 1].numKeys = 0
            /\ file[ch[l] + 1].numKeys > 0

\* a scan that crosses an emptied leaf and returns the keys on both sides
RangeScanWitness ==
    /\ Sound /\ HasEmptyLeafBetween
    /\ Len(readRangeData(St(0), INT_MIN, INT_MAX).out) >= 2
    /\ \E lo \in Keys, hi \in Keys :
          lo > hi /\ readRangeData(St(0), lo, hi).out = <<>>

\* the file differs from g at most in the values of leaf entries
SameShape(f, g) ==
    /\ Len(f) = Len(g)
    /\ \A i \in 1..Len(f) :
          IF f[i].kind = "L" /\ g[i].kind = "L"
          THEN /\ f[i].keys = g[i].keys /\ f[i].numKeys = g[i].numKeys
               /\ f[i].nextLeaf = g[i].nextLeaf
          ELSE f[i] = g[i]

\* C3: Overwrite.  writeData(k, v2) on a key that is present succeeds and
\* replaces its value, so that readData(k) yields v2; the leaves hold exactly
\* one entry with key k afterwards, as before; no page is added and no node
\* changes its keys, numKeys or links.
Overwrite ==
    Sound => \A k \in Keys, v2 \in Values :
        model[k] # 0 =>
            LET w == writeData(St(0), k, v2)
            IN  /\ w.ret
                /\ Answer(readData(w.st, k)) = [ret |-> TRUE, out |-> <<v2>>]
                /\ EntryCount(file, k) = 1
                /\ EntryCount(w.st.file, k) = 1
                /\ SameShape(w.st.file, file)
                /\ w.st.hdr = m_header

\* a key in a full leaf of a tree with internal nodes, overwritten with a value
\* other than the one it has
OverwriteWitness ==
    /\ Sound /\ TreeHeight >= 2
    /\ \E k \in Keys, v2 \in Values :
          /\ model[k] # 0 /\ model[k] # v2
          /\ file[findLeafPage(St(0), k).page + 1].numKeys = LEAF_MAX_KEYS
          /\ readData(writeData(St(0), k, v2).st, k).out = <<v2>>

\* C4: Delete.  With no I/O failure, deleteData(k) returns true exactly when k
\* is present; after it returned true readData(k) returns false, and every
\* other key is read as before: live keys with their last-written values.  A
\* key that is not present (deleted and not written since) reads as absent.
Delete ==
    alive /\ ~damaged /\ ~ub => \A k \in Keys :
        LET d == deleteData(St(0), k)
        IN  /\ d.ret = (model[k] # 0)
            /\ (model[k] = 0 => ~readData(St(0), k).ret)
            /\ (d.ret => /\ ~readData(d.st, k).ret
                         /\ \A j \in Keys \ {k} :
                               Answer(readData(d.st, j)) = Expected(j))

\* a key deleted from a leaf that holds other keys, in a tree with internal
\* nodes; and a key that is absent
DeleteWitness ==
    /\ Sound /\ TreeHeight >= 2
    /\ \E k \in Keys, j \in Keys :
          /\ k # j /\ model[k] # 0 /\ model[j] # 0
          /\ findLeafPage(St(0), k).page = findLeafPage(St(0), j).page
          /\ deleteData(St(0), k).ret
          /\ readData(deleteData(St(0), k).st, j).ret
    /\ \E k \in Keys : model[k] = 0 /\ ~deleteData(St(0), k).ret

\* the tree a new object finds on file f; h0 is what its m_header held before
Opened(f, h0) ==
    LET c == construct(StOf(f, h0, TRUE))
    IN  [c.st EXCEPT !.ok = c.ok, !.n = 0, !.log = <<>>]

\* page 0 of f is a whole page holding a header with the right magic and size
ValidHeaderFile(f) ==
    /\ f # Unopenable /\ FullPages(f) >= 1 /\ f[1].kind = "H"
    /\ f[1].magic = MAGIC /\ f[1].pageSize = PAGE_SIZE

\* C5: Persistence.  Destroying the tree and constructing a new one on the
\* same file yields an OK tree whose readData returns the last-written value
\* of every live key and false for every other key, and whose readRangeData
\* returns what it returned before the close.  (First conjunct: the tree
\* closed from the current state; second: a file left by a destroyed tree.)
Persistence ==
    \A h0 \in IndeterminateHeaders :
        /\ Sound =>
              LET t == Opened(flushHeader(St(0)).st.file, h0)
              IN  /\ t.ok
                  /\ \A k \in Keys : Answer(readData(t, k)) = Expected(k)
                  /\ \A k \in Keys : Answer(readData(t, k)) = Answer(readData(St(0), k))
                  /\ \A lo \in Bounds, hi \in Bounds :
                        readRangeData(t, lo, hi).out = readRangeData(St(0), lo, hi).out
        /\ (~alive /\ ~damaged /\ ~ub /\ ValidHeaderFile(file)) =>
              LET t == Opened(file, h0)
              IN  /\ t.ok
                  /\ \A k \in Keys : Answer(readData(t, k)) = Expected(k)
                  /\ \A lo \in Bounds, hi \in Bounds :
                        readRangeData(t, lo, hi).out = ExpectedRange(model, lo, hi, 1)

\* a destroyed tree of three levels with live and deleted keys, reopened
PersistenceWitness ==
    /\ ~alive /\ ~damaged /\ ~ub /\ ValidHeaderFile(file)
    /\ Height(file, file[1].rootPage, Len(file)) >= 3
    /\ LiveKeys # {} /\ LiveKeys # Keys
    /\ \E k \in LiveKeys : readData(Opened(file, ZeroHeader), k).out = <<model[k]>>

\* the file cannot be opened, or is not empty and has no whole page 0, or has
\* a page 0 with a wrong magic or a wrong page size
InvalidFile(f) ==
    \/ f = Unopenable
    \/ /\ Len(f) > 0
       /\ \/ FullPages(f) = 0
          \/ f[1].kind = "H" /\ (f[1].magic # MAGIC \/ f[1].pageSize # PAGE_SIZE)

\* every public call on the current tree returns failure and touches nothing
AllRejected ==
    /\ \A k \in Keys, v \in Values :
          LET w == writeData(St(0), k, v) IN ~w.ret /\ w.st.file = file /\ w.st.n = 0
    /\ \A k \in Keys :
          LET d == deleteData(St(0), k) IN ~d.ret /\ d.st.file = file /\ d.st.n = 0
    /\ \A k \in Keys :
          LET r == readData(St(0), k) IN ~r.ret /\ r.st.n = 0
    /\ \A lo \in Bounds, hi \in Bounds :
          LET r == readRangeData(St(0), lo, hi) IN r.out = <<>> /\ r.st.n = 0

NotOkState ==
    /\ (alive /\ InvalidFile(file)) => ~m_ok
    /\ (alive /\ ~m_ok) => AllRejected

NotOkStays == (alive /\ ~m_ok /\ alive') => ~m_ok'

\* C6: Not-OK state.  A tree constructed on a file that cannot be opened, or
\* that is not empty and whose page 0 cannot be read in full or has a magic
\* other than 0x42505431 or a page size other than 4096, is not OK; while a
\* tree is not OK every writeData, deleteData and readData returns false and
\* every readRangeData returns nothing; and the tree never becomes OK again.
NotOk == []NotOkState /\ [][NotOkStays]_vars

\* a tree on a file with a wrong page size that has rejected a write
NotOkWitness ==
    /\ alive /\ ~m_ok /\ m_fd >= 0
    /\ file = <<BadPageSizePage>>
    /\ ~writeData(St(0), 1, 1).ret

\* C7: Error propagation.  Whenever a page read, page write or page
\* allocation fails during writeData, deleteData, readData or readRangeData,
\* the call returns false (readRangeData: returns no values).
ErrorsPropagate ==
    (Sound /\ faultsLeft > 0) =>
        /\ \A k \in Keys, v \in Values :
              \A f \in FaultPoints(writeData(St(0), k, v).st.n) \ {0} :
                 ~writeData(St(f), k, v).ret
        /\ \A k \in Keys :
              \A f \in FaultPoints(deleteData(St(0), k).st.n) \ {0} :
                 ~deleteData(St(f), k).ret
        /\ \A k \in Keys :
              \A f \in FaultPoints(readData(St(0), k).st.n) \ {0} :
                 ~readData(St(f), k).ret
        /\ \A lo \in Bounds, hi \in Bounds :
              \A f \in FaultPoints(readRangeData(St(0), lo, hi).st.n) \ {0} :
                 readRangeData(St(f), lo, hi).out = <<>>

FreshFile ==
    <<HeaderPage(FreshHeader), LeafPage(<<>>, <<>>, INVALID_PAGE)>>

FreshInitStep ==
    (~alive /\ Len(file) = 0 /\ alive') =>
        /\ file' = FreshFile
        /\ Len(file') = 2
        /\ m_header' = FreshHeader
        /\ HeaderOf(file'[1]) = m_header'
        /\ m_ok'
        /\ \A k \in Keys : ~readData(StOf(file', m_header', m_ok'), k).ret

\* C8: Fresh initialization.  Constructing a tree on a nonexistent or empty
\* file leaves a file of exactly two pages: page 0 the header with magic
\* 0x42505431, pageSize 4096, rootPage 1 and freeListHead INVALID_PAGE, page 1
\* a leaf with no keys and nextLeaf INVALID_PAGE; the header on disk equals
\* the header in memory; the tree is OK and readData of any key returns false.
FreshInit == [][FreshInitStep]_vars

\* a tree just constructed on an empty file
FreshInitWitness ==
    /\ alive /\ m_ok /\ file = FreshFile /\ m_header = FreshHeader
    /\ \A k \in Keys : ~readData(St(0), k).ret

\* a tree that is up, has met no failure, and whose root is a page of the file
Built == Sound /\ IsPage(file, m_header.rootPage)

\* the separator property of every internal node below page root of file f
SeparatorsHold(f, root) ==
    \A p \in InternalsUnder(f, root, Len(f)) :
        \A i \in 1..f[p + 1].numKeys :
            /\ \A k \in KeysUnder(f, f[p + 1].children[i]) : k < f[p + 1].keys[i]
            /\ \A k \in KeysUnder(f, f[p + 1].children[i + 1]) : k >= f[p + 1].keys[i]

\* C9: Separator invariant.  After any sequence of successful writeData and
\* deleteData calls, every internal node with keys k[0..n-1] and children
\* c[0..n] has every key below c[i] < k[i] and every key below c[i+1] >= k[i];
\* the descent (advance while key >= keys[i]) reaches a leaf, the only leaf
\* that holds the key if any does, and the leaf a write puts the key in
\* without breaking the separator property.
Separators ==
    Built =>
        /\ SeparatorsHold(file, m_header.rootPage)
        /\ \A k \in Keys :
              LET lp == findLeafPage(St(0), k).page
                  w == writeData(St(0), k, 1)
              IN  /\ lp # INVALID_PAGE
                  /\ \A q \in SeqRange(LeavesUnder(file, m_header.rootPage, Len(file))) :
                        k \in SeqRange(file[q + 1].keys) => q = lp
                  /\ w.ret
                  /\ SeparatorsHold(w.st.file, w.st.hdr.rootPage)
                  /\ k \in SeqRange(w.st.file[findLeafPage(w.st, k).page + 1].keys)

\* a tree of three levels in which a separator is a key that was deleted
SeparatorsWitness ==
    /\ Built /\ TreeHeight >= 3
    /\ \E p \in InternalsUnder(file, m_header.rootPage, Len(file)) :
          \E i \in 1..file[p + 1].numKeys :
             /\ model[file[p + 1].keys[i]] = 0
             /\ KeysUnder(file, file[p + 1].children[i + 1]) # {}

\* C10: Leaf chain.  With no I/O failure, following nextLeaf from the leaf
\* reached by descending with INT_MIN visits every leaf reachable from the
\* root exactly once, left to right, with ascending keys, and ends at
\* INVALID_PAGE; a leaf split sets the new right leaf's nextLeaf to the old
\* value of the left leaf's nextLeaf and the left leaf's nextLeaf to the new
\* page.
LeafChain ==
    Built =>
        LET ch == Chain(file, findLeafPage(St(0), INT_MIN).page, Len(file))
        IN  /\ ch = LeavesUnder(file, m_header.rootPage, Len(file))
            /\ Len(ch) >= 1
            /\ Cardinality(SeqRange(ch)) = Len(ch)
            /\ StrictlyAscending(KeysAlong(file, ch, 1))
            /\ file[ch[Len(ch)] + 1].nextLeaf = INVALID_PAGE
            /\ \A k \in Keys, v \in Values :
                  LET lp == findLeafPage(St(0), k).page
                      w == writeData(St(0), k, v)
                      newPage == Len(file)
                  IN  (model[k] = 0 /\ file[lp + 1].numKeys = LEAF_MAX_KEYS) =>
                        /\ w.ret
                        /\ w.st.file[newPage + 1].kind = "L"
                        /\ w.st.file[newPage + 1].nextLeaf = file[lp + 1].nextLeaf
                        /\ w.st.file[lp + 1].nextLeaf = newPage

\* a full leaf with a leaf after it, and a key whose insertion splits it
LeafChainWitness ==
    /\ Built
    /\ Len(Chain(file, findLeafPage(St(0), INT_MIN).page, Len(file))) >= 2
    /\ \E k \in Keys :
          LET lp == findLeafPage(St(0), k).page
          IN  /\ model[k] = 0
              /\ file[lp + 1].numKeys = LEAF_MAX_KEYS
              /\ file[lp + 1].nextLeaf # INVALID_PAGE
              /\ writeData(St(0), k, 1).st.file[Len(file) + 1].nextLeaf
                    = file[lp + 1].nextLeaf

\* the (key, value) pairs a leaf page holds
Pairs(leaf) == {<<leaf.keys[i], leaf.values[i]>> : i \in 1..leaf.numKeys}

LeafPagesOf(f) == {p \in 0..(Len(f) - 1) : f[p + 1].kind = "L"}

\* key k is absent and the leaf the descent reaches for it is full
SplitsLeaf(k) ==
    LET lp == findLeafPage(St(0), k).page
    IN  /\ model[k] = 0
        /\ file[lp + 1].kind = "L"
        /\ file[lp + 1].numKeys = LEAF_MAX_KEYS

\* in file f some internal node below root holds separator key between a
\* subtree whose last leaf is leftPage and one whose first leaf is rightPage
SeparatedBy(f, root, leftPage, key, rightPage) ==
    \E p \in InternalsUnder(f, root, Len(f)) :
        \E i \in 1..f[p + 1].numKeys :
            LET l == LeavesUnder(f, f[p + 1].children[i], Len(f))
                r == LeavesUnder(f, f[p + 1].children[i + 1], Len(f))
            IN  /\ f[p + 1].keys[i] = key
                /\ Len(l) >= 1 /\ l[Len(l)] = leftPage
                /\ Len(r) >= 1 /\ r[1] = rightPage

\* C11: Leaf split.  Inserting a new key into a leaf that holds LEAF_MAX_KEYS
\* keys forms the sorted sequence of LEAF_MAX_KEYS + 1 pairs, leaves the first
\* floor((LEAF_MAX_KEYS + 1) / 2) of them in the existing leaf and puts the
\* rest in one newly allocated leaf; no pair is lost or duplicated; the key
\* promoted to the parent is the first key of the new leaf, and it goes up
\* together with the new leaf's page ID.
LeafSplit ==
    Built => \A k \in KeysOf(limits), v \in Values :
        SplitsLeaf(k) =>
            LET f == findLeafPage(St(0), k)
                lp == f.page
                l == insertInLeaf(f.st, lp, k, v)
                w == writeData(St(0), k, v)
                newPage == Len(file)
                total == LEAF_MAX_KEYS + 1
                left == l.st.file[lp + 1]
                right == l.st.file[newPage + 1]
            IN  /\ l.ok /\ w.ret
                /\ left.kind = "L" /\ right.kind = "L"
                /\ left.numKeys = total \div 2
                /\ right.numKeys = total - total \div 2
                /\ Len(left.keys) = left.numKeys /\ Len(right.keys) = right.numKeys
                /\ StrictlyAscending(left.keys \o right.keys)
                /\ Pairs(left) \cup Pairs(right) = Pairs(file[lp + 1]) \cup {<<k, v>>}
                /\ Cardinality(Pairs(left) \cup Pairs(right)) = total
                /\ LeafPagesOf(l.st.file) = LeafPagesOf(file) \cup {newPage}
                /\ LeafPagesOf(w.st.file) = LeafPagesOf(file) \cup {newPage}
                /\ \A q \in LeafPagesOf(file) \ {lp} : w.st.file[q + 1] = file[q + 1]
                /\ w.st.file[lp + 1] = left /\ w.st.file[newPage + 1] = right
                /\ l.promotedKey = right.keys[1]
                /\ l.newRightPage = newPage
                /\ SeparatedBy(w.st.file, w.st.hdr.rootPage, lp, right.keys[1], newPage)

\* a full leaf below an internal node, split by a key that falls between its
\* two keys
LeafSplitWitness ==
    /\ Built /\ TreeHeight >= 2
    /\ \E k \in KeysOf(limits) :
          LET lp == findLeafPage(St(0), k).page
          IN  /\ SplitsLeaf(k)
              /\ file[lp + 1].keys[1] < k
              /\ k < file[lp + 1].keys[LEAF_MAX_KEYS]
              /\ writeData(St(0), k, MaxVal).st.file[Len(file) + 1].numKeys
                    = LEAF_MAX_KEYS + 1 - (LEAF_MAX_KEYS + 1) \div 2

\* the page above the leaf that the descent for k reaches (INVALID_PAGE: none)
ParentOfLeaf(k) ==
    LET path == findLeafPage(St(0), k).path
    IN  IF Len(path) >= 2 THEN path[Len(path) - 1] ELSE INVALID_PAGE

\* writing k splits its leaf and the internal node above that leaf is full
SplitsParent(k) ==
    /\ SplitsLeaf(k)
    /\ ParentOfLeaf(k) # INVALID_PAGE
    /\ file[ParentOfLeaf(k) + 1].kind = "I"
    /\ file[ParentOfLeaf(k) + 1].numKeys = INTERNAL_MAX_KEYS

\* C12: Internal split.  Inserting (key, rightPage) into a parent that holds
\* INTERNAL_MAX_KEYS keys forms total = INTERNAL_MAX_KEYS + 1 keys and
\* total + 1 children; with mid = floor(total / 2) the existing node keeps keys
\* [0, mid) and children [0, mid + 1), one newly allocated internal node gets
\* keys [mid + 1, total) and children [mid + 1, total + 1), and key mid goes
\* up and is stored in neither; every child page ID is in exactly one of the
\* two nodes.
InternalSplit ==
    Built => \A k \in KeysOf(limits), v \in Values :
        SplitsParent(k) =>
            LET f == findLeafPage(St(0), k)
                lp == f.page
                l == insertInLeaf(f.st, lp, k, v)
                parentPage == ParentOfLeaf(k)
                parent == file[parentPage + 1]
                w == writeData(St(0), k, v)
                newPage == Len(file) + 1
                total == INTERNAL_MAX_KEYS + 1
                mid == total \div 2
                left == w.st.file[parentPage + 1]
                right == w.st.file[newPage + 1]
                allKeys == SeqRange(parent.keys) \cup {l.promotedKey}
                up == allKeys \ (SeqRange(left.keys) \cup SeqRange(right.keys))
                allChildren == left.children \o right.children
            IN  /\ w.ret
                /\ left.kind = "I" /\ right.kind = "I"
                /\ Cardinality(allKeys) = total
                /\ left.numKeys = mid /\ Len(left.keys) = mid
                /\ Len(left.children) = mid + 1
                /\ right.numKeys = total - mid - 1 /\ Len(right.keys) = total - mid - 1
                /\ Len(right.children) = total - mid
                /\ Cardinality(up) = 1
                /\ \A midKey \in up :
                      /\ StrictlyAscending(left.keys \o <<midKey>> \o right.keys)
                      /\ \E g \in InternalsUnder(w.st.file, w.st.hdr.rootPage, Len(w.st.file)) :
                            \E i \in 1..w.st.file[g + 1].numKeys :
                               /\ w.st.file[g + 1].keys[i] = midKey
                               /\ w.st.file[g + 1].children[i] = parentPage
                               /\ w.st.file[g + 1].children[i + 1] = newPage
                /\ SeqRange(left.keys) \cup SeqRange(right.keys) \cup up = allKeys
                /\ Len(allChildren) = total + 1
                /\ Cardinality(SeqRange(allChildren)) = total + 1
                /\ \E j \in 1..Len(parent.children) :
                      /\ parent.children[j] = lp
                      /\ allChildren = SubSeq(parent.children, 1, j) \o <<l.newRightPage>>
                                          \o SubSeq(parent.children, j + 1, Len(parent.children))

\* a full internal node that is not the root, split by a write that leaves the
\* root where it was
InternalSplitWitness ==
    /\ Built /\ TreeHeight >= 3
    /\ \E k \in KeysOf(limits) :
          /\ SplitsParent(k)
          /\ ParentOfLeaf(k) # m_header.rootPage
          /\ writeData(St(0), k, 1).ret
          /\ writeData(St(0), k, 1).st.hdr.rootPage = m_header.rootPage
          /\ writeData(St(0), k, 1).st.file[Len(file) + 2].kind = "I"

\* writing k splits its leaf and every internal node on the way down to that
\* leaf is full: the split reaches the root
SplitsRoot(k) ==
    LET path == findLeafPage(St(0), k).path
    IN  /\ SplitsLeaf(k)
        /\ \A i \in 1..(Len(path) - 1) :
              /\ file[path[i] + 1].kind = "I"
              /\ file[path[i] + 1].numKeys = INTERNAL_MAX_KEYS

\* positions of the successful calls of kind `what` on page pageId in an I/O log
CallsIn(log, what, pageId) ==
    {i \in 1..Len(log) : log[i] = <<what, pageId, TRUE>>}

\* writeData(k, v) from the current state: the root moves exactly when the
\* split reaches the root, and then as the claim says
RootGrowthOf(k, v) ==
    LET w == writeData(St(0), k, v)
        g == w.st.file
        oldRoot == m_header.rootPage
        R == w.st.hdr.rootPage
        sibling == R - 1
    IN  /\ w.ret
        /\ (R # oldRoot) = SplitsRoot(k)
        /\ HeaderOf(g[1]).rootPage = R
        /\ R = oldRoot => CallsIn(w.st.log, "h", 0) = {}
        /\ R # oldRoot =>
              /\ R >= Len(file) /\ R = Len(g) - 1
              /\ sibling >= Len(file)
              /\ g[R + 1].kind = "I"
              /\ g[R + 1].numKeys = 1 /\ Len(g[R + 1].keys) = 1
              /\ g[R + 1].children = <<oldRoot, sibling>>
              /\ g[oldRoot + 1].kind = file[oldRoot + 1].kind
              /\ g[sibling + 1].kind = file[oldRoot + 1].kind
              /\ IF g[sibling + 1].kind = "L"
                 THEN g[R + 1].keys[1] = g[sibling + 1].keys[1]
                 ELSE /\ g[R + 1].keys[1] \notin SeqRange(g[oldRoot + 1].keys)
                      /\ g[R + 1].keys[1] \notin SeqRange(g[sibling + 1].keys)
              /\ \A j \in KeysUnder(g, oldRoot) : j < g[R + 1].keys[1]
              /\ \A j \in KeysUnder(g, sibling) : j >= g[R + 1].keys[1]
              /\ Cardinality(CallsIn(w.st.log, "a", R)) = 1
              /\ Cardinality(CallsIn(w.st.log, "w", R)) = 1
              /\ Cardinality(CallsIn(w.st.log, "h", 0)) = 1
              /\ \A i \in CallsIn(w.st.log, "a", R), j \in CallsIn(w.st.log, "w", R),
                       h \in CallsIn(w.st.log, "h", 0) :
                     i < j /\ j < h /\ h = Len(w.st.log)

RootGrowthState ==
    Built =>
        /\ \A k \in KeysOf(limits), v \in Values : RootGrowthOf(k, v)
        /\ \A k \in KeysOf(limits) :
              /\ deleteData(St(0), k).st.hdr = m_header
              /\ deleteData(St(0), k).st.file[1] = file[1]
              /\ readData(St(0), k).st.hdr = m_header
        /\ \A lo \in BoundsOf(limits), hi \in BoundsOf(limits) :
              readRangeData(St(0), lo, hi).st.hdr = m_header

RootGrowthStep ==
    (Built /\ alive' /\ m_header'.rootPage # m_header.rootPage) =>
        /\ Len(file') >= Len(file) + 2
        /\ m_header'.rootPage = Len(file') - 1
        /\ file'[m_header'.rootPage + 1].kind = "I"
        /\ file'[m_header'.rootPage + 1].numKeys = 1
        /\ file'[m_header'.rootPage + 1].children[1] = m_header.rootPage
        /\ HeaderOf(file'[1]).rootPage = m_header'.rootPage
        /\ model' # model

\* C13: Root growth.  m_header.rootPage changes only when the current root
\* (leaf or internal) splits; the new root is then a freshly allocated internal
\* node with exactly one key, the promoted key, and the children <<old root
\* page, new sibling page>>; and the new root page is written before the
\* header that points to it is flushed.
RootGrowth == []RootGrowthState /\ [][RootGrowthStep]_vars

\* a tree whose root has just been replaced over a split internal root
RootGrowthWitness ==
    /\ Built /\ TreeHeight >= 3
    /\ m_header.rootPage = Len(file) - 1
    /\ file[m_header.rootPage + 1].numKeys = 1
    /\ file[file[m_header.rootPage + 1].children[2] + 1].kind = "I"
    /\ HeaderOf(file[1]).rootPage = m_header.rootPage

\* the places (internal page, child slot) of file f that name page p as a child
ChildRefs(f, p) ==
    {<<q, i>> \in (0..(Len(f) - 1)) \X (1..(INTERNAL_MAX_KEYS + 1)) :
        /\ f[q + 1].kind = "I" /\ i <= Len(f[q + 1].children)
        /\ f[q + 1].children[i] = p}

\* the page IDs the successful allocations of an I/O log returned, in order
RECURSIVE Allocated(_, _)
Allocated(log, i) ==
    IF i > Len(log) THEN <<>>
    ELSE IF log[i][1] = "a" /\ log[i][3] THEN <<log[i][2]>> \o Allocated(log, i + 1)
    ELSE Allocated(log, i + 1)

\* every node page of f is a written leaf or internal node, the root is named
\* by the header alone, every other node by exactly one child slot, and page 0
\* and pages beyond the file by none
Owned(f, root) ==
    /\ IsPage(f, root) /\ root # 0
    /\ \A p \in 1..(Len(f) - 1) :
          /\ f[p + 1].kind \in {"L", "I"}
          /\ Cardinality(ChildRefs(f, p)) = (IF p = root THEN 0 ELSE 1)
    /\ \A q \in 1..(Len(f) - 1) :
          f[q + 1].kind = "I" =>
             \A i \in 1..Len(f[q + 1].children) :
                f[q + 1].children[i] >= 1 /\ f[q + 1].children[i] < Len(f)
    /\ SeqRange(LeavesUnder(f, root, Len(f))) \cup InternalsUnder(f, root, Len(f))
          = 1..(Len(f) - 1)

\* C14: Page ownership.  At every operation boundary (no I/O failures)
\* allocatePage returns the current number of pages, never 0 and never an ID
\* in use; and every allocated node page is named as a child by exactly one
\* internal node, or by the header's rootPage if it is the root, and by
\* nothing else as a child.
PageOwnership ==
    Built =>
        /\ Owned(file, m_header.rootPage)
        /\ HeaderOf(file[1]).rootPage = m_header.rootPage
        /\ allocatePage(St(0)).pageId = Len(file)
        /\ allocatePage(St(0)).pageId # 0
        /\ Len(allocatePage(St(0)).st.file) = Len(file) + 1
        /\ \A p \in 0..(Len(file) - 1) :
              allocatePage(St(0)).st.file[p + 1] = file[p + 1]
        /\ \A k \in KeysOf(limits), v \in Values :
              LET w == writeData(St(0), k, v)
                  ids == Allocated(w.st.log, 1)
              IN  /\ \A i \in 1..Len(ids) : ids[i] = Len(file) + i - 1
                  /\ Len(w.st.file) = Len(file) + Len(ids)
                  /\ Owned(w.st.file, w.st.hdr.rootPage)

\* a tree of three levels after an internal node below the root has split,
\* with a leaf that deletes have emptied
PageOwnershipWitness ==
    /\ Built /\ TreeHeight >= 3
    /\ file[m_header.rootPage + 1].numKeys >= 2
    /\ \E p \in LeafPagesOf(file) : file[p + 1].numKeys = 0
    /\ Cardinality(InternalsUnder(file, m_header.rootPage, Len(file))) >= 4

\* the header page of f holds what the object holds in h
InSync(f, h) == Len(f) >= 1 /\ f[1].kind = "H" /\ HeaderOf(f[1]) = h

\* C15: Header synchronisation.  At the return of every public operation that
\* met no I/O failure, the rootPage stored in page 0 equals the in-memory
\* m_header.rootPage, so that a tree opened on the file as it is, without the
\* destructor having run, starts from the current root (and finds every key).
HeaderSync ==
    Sound =>
        /\ InSync(file, m_header)
        /\ file[1].rootPage = m_header.rootPage
        /\ \A k \in KeysOf(limits), v \in Values :
              LET w == writeData(St(0), k, v)
              IN  /\ InSync(w.st.file, w.st.hdr)
                  /\ w.st.file[1].rootPage = w.st.hdr.rootPage
        /\ \A k \in KeysOf(limits) :
              InSync(deleteData(St(0), k).st.file, deleteData(St(0), k).st.hdr)
        /\ \A h0 \in IndeterminateHeaders :
              LET t == Opened(file, h0)
              IN  /\ t.ok
                  /\ t.hdr.rootPage = m_header.rootPage
                  /\ \A k \in KeysOf(limits) :
                        Answer(readData(t, k)) = Answer(readData(St(0), k))

\* a tree whose root has moved twice, read through a second object opened on
\* the file as it is
HeaderSyncWitness ==
    /\ Sound /\ TreeHeight >= 3
    /\ m_header.rootPage > 3
    /\ file[1].rootPage = m_header.rootPage
    /\ \E k \in KeysOf(limits) :
          readData(Opened(file, ZeroHeader), k).out = <<MaxVal>>

\* every leaf and every internal node of file f is within its capacity, holds
\* as many entries as numKeys says, and has strictly ascending keys
WithinCapacity(f) ==
    \A p \in 1..Len(f) :
        /\ f[p].kind = "L" =>
              /\ f[p].numKeys <= LEAF_MAX_KEYS
              /\ Len(f[p].keys) = f[p].numKeys /\ Len(f[p].values) = f[p].numKeys
              /\ StrictlyAscending(f[p].keys)
        /\ f[p].kind = "I" =>
              /\ f[p].numKeys <= INTERNAL_MAX_KEYS
              /\ Len(f[p].keys) = f[p].numKeys
              /\ Len(f[p].children) = f[p].numKeys + 1
              /\ StrictlyAscending(f[p].keys)

\* C16: Capacity safety.  In every reachable state every leaf has numKeys <=
\* LEAF_MAX_KEYS and every internal node numKeys <= INTERNAL_MAX_KEYS with
\* numKeys + 1 children, keys ascend strictly within every leaf and every
\* internal node, and no insert, split or delete step touches a slot of a
\* node array or of a temporary split array outside its declared bounds.
CapacitySafety ==
    /\ WithinCapacity(file)
    /\ ~ub
    /\ Built =>
          /\ \A k \in KeysOf(limits), v \in Values :
                LET w == writeData(St(0), k, v)
                IN  ~w.st.ub /\ WithinCapacity(w.st.file)
          /\ \A k \in KeysOf(limits) :
                LET d == deleteData(St(0), k)
                    lf == file[findLeafPage(St(0), k).page + 1]
                IN  /\ ~d.st.ub /\ WithinCapacity(d.st.file)
                    /\ searchInLeaf(lf, k).index <= lf.numKeys
                    /\ searchInLeaf(lf, k).found => searchInLeaf(lf, k).index \in LeafSlots

\* a tree of three levels with a full leaf below a full internal node, and a
\* key whose insertion fills both temporary split arrays
CapacitySafetyWitness ==
    /\ Built /\ TreeHeight >= 3
    /\ \E k \in KeysOf(limits) :
          /\ SplitsParent(k)
          /\ writeData(St(0), k, 1).ret
          /\ ~writeData(St(0), k, 1).st.ub
    /\ \E k \in KeysOf(limits) : model[k] # 0 /\ deleteData(St(0), k).ret

\* the page p of file f is a leaf, or an internal node with at least one key
\* and at least two children
RootShaped(f, p) ==
    /\ IsPage(f, p)
    /\ \/ f[p + 1].kind = "L"
       \/ /\ f[p + 1].kind = "I"
          /\ f[p + 1].numKeys >= 1
          /\ Len(f[p + 1].children) >= 2

\* C17: Root shape.  At every operation boundary the page named by rootPage
\* of an OK tree is either a leaf (possibly with no keys, also after deletes)
\* or an internal node with at least 1 key and at least 2 children.
RootShape == (alive /\ m_ok) => RootShaped(file, m_header.rootPage)

\* positions of the calls of an I/O log that are not reads
WritesIn(log) == {i \in 1..Len(log) : log[i][1] # "r"}

\* what deleteData(k) from the current state touches
DeleteFrameOf(k) ==
    LET d == deleteData(St(0), k)
        g == d.st.file
        lp == findLeafPage(St(0), k).page
        holders == {p \in LeafPagesOf(file) : k \in SeqRange(file[p + 1].keys)}
    IN  /\ Len(g) = Len(file)
        /\ d.st.hdr = m_header
        /\ g[1] = file[1]
        /\ \A p \in 0..(Len(file) - 1) :
              /\ g[p + 1].kind = file[p + 1].kind
              /\ file[p + 1].kind = "I" => g[p + 1] = file[p + 1]
              /\ file[p + 1].kind = "L" => g[p + 1].nextLeaf = file[p + 1].nextLeaf
              /\ p \notin holders => g[p + 1] = file[p + 1]
        /\ IF model[k] = 0
           THEN /\ ~d.ret /\ holders = {}
                /\ g = file
                /\ WritesIn(d.st.log) = {}
           ELSE /\ d.ret /\ holders = {lp}
                /\ g[lp + 1].numKeys = file[lp + 1].numKeys - 1
                /\ Len(g[lp + 1].keys) = g[lp + 1].numKeys
                /\ Pairs(g[lp + 1]) = Pairs(file[lp + 1]) \ {<<k, model[k]>>}
                /\ StrictlyAscending(g[lp + 1].keys)
                /\ Cardinality(WritesIn(d.st.log)) = 1
                /\ \A i \in WritesIn(d.st.log) : d.st.log[i] = <<"w", lp, TRUE>>

\* C18: Delete frame.  deleteData(k) changes nothing but the keys, values and
\* numKeys of the single leaf that holds k: no internal node (stale separators
\* stay), no nextLeaf pointer, not the header, not the number of pages; and
\* when k is absent it writes no page at all.
DeleteFrame ==
    (alive /\ m_ok /\ ~damaged /\ ~ub) => \A k \in KeysOf(limits) : DeleteFrameOf(k)

\* a live key that is also a separator of an internal node is deleted, which
\* empties its leaf; and some key is absent
DeleteFrameWitness ==
    /\ Built /\ TreeHeight >= 2
    /\ \E k \in KeysOf(limits) :
          LET lp == findLeafPage(St(0), k).page
          IN  /\ model[k] # 0
              /\ \E p \in InternalsUnder(file, m_header.rootPage, Len(file)) :
                    k \in SeqRange(file[p + 1].keys)
              /\ file[lp + 1].numKeys = 1
              /\ file[lp + 1].nextLeaf # INVALID_PAGE
              /\ deleteData(St(0), k).ret
              /\ deleteData(St(0), k).st.file[lp + 1].numKeys = 0
    /\ \E k \in KeysOf(limits) : model[k] = 0 /\ ~deleteData(St(0), k).ret

\* the depths at which the leaves below page p lie (p itself: depth 1)
RECURSIVE Depths(_, _, _)
Depths(f, p, fuel) ==
    IF ~IsPage(f, p) \/ fuel = 0 THEN {0}
    ELSE IF f[p + 1].kind = "L" THEN {1}
    ELSE IF f[p + 1].kind = "I"
    THEN {d + 1 : d \in UNION {Depths(f, f[p + 1].children[i], fuel - 1) :
                                  i \in 1..Len(f[p + 1].children)}}
    ELSE {0}

\* all leaves below page root of file f lie at depth h
BalancedAt(f, root, h) == Depths(f, root, Len(f)) = {h}

\* C19: Balance.  At every operation boundary all leaves reachable from the
\* root are at the same depth; the height grows by exactly one when the root
\* splits and never changes otherwise: not on splits below the root, not on
\* overwrites, plain inserts or deletes.
Balance ==
    Built =>
        /\ TreeHeight >= 1
        /\ BalancedAt(file, m_header.rootPage, TreeHeight)
        /\ \A k \in KeysOf(limits), v \in Values :
              LET w == writeData(St(0), k, v)
              IN  /\ w.ret
                  /\ BalancedAt(w.st.file, w.st.hdr.rootPage,
                                TreeHeight + (IF SplitsRoot(k) THEN 1 ELSE 0))
        /\ \A k \in KeysOf(limits) :
              LET d == deleteData(St(0), k)
              IN  BalancedAt(d.st.file, d.st.hdr.rootPage, TreeHeight)

\* a tree of three levels in which a write splits a leaf and the internal node
\* above it, below the root, and the height stays
BalanceWitness ==
    /\ Built /\ TreeHeight >= 3
    /\ \E k \in KeysOf(limits) :
          LET w == writeData(St(0), k, 1)
          IN  /\ SplitsParent(k) /\ ~SplitsRoot(k)
              /\ w.ret
              /\ Len(w.st.file) = Len(file) + 2
              /\ BalancedAt(w.st.file, w.st.hdr.rootPage, TreeHeight)

\* the pages an I/O log reads, in order
RECURSIVE ReadsOf(_, _)
ReadsOf(log, i) ==
    IF i > Len(log) THEN <<>>
    ELSE IF log[i][1] = "r" THEN <<log[i][2]>> \o ReadsOf(log, i + 1)
    ELSE ReadsOf(log, i + 1)

Distinct(q) == Cardinality(SeqRange(q)) = Len(q)

\* the last j pages of path above its last page, bottom-up
Upward(path, j) == [i \in 1..j |-> path[Len(path) - i]]

\* the descent for k visits each level once, top-down, and ends at a leaf
DescentEnds(k) ==
    LET f == findLeafPage(St(0), k)
    IN  /\ ~f.st.ub
        /\ f.page # INVALID_PAGE /\ file[f.page + 1].kind = "L"
        /\ Len(f.path) = TreeHeight /\ Distinct(f.path)
        /\ f.path[1] = m_header.rootPage /\ f.path[Len(f.path)] = f.page
        /\ \A i \in 1..(Len(f.path) - 1) :
              /\ file[f.path[i] + 1].kind = "I"
              /\ f.path[i + 1] \in SeqRange(file[f.path[i] + 1].children)
        /\ ReadsOf(f.st.log, 1) = f.path

\* the walk of readRangeData(lo, hi) reads leaves along nextLeaf, each once, and
\* stops at the first that ends the chain or holds a key beyond hi
WalkEnds(lo, hi) ==
    LET f == findLeafPage(St(0), lo)
        r == readRangeData(St(0), lo, hi)
        reads == ReadsOf(r.st.log, 1)
        walk == SubSeq(reads, Len(f.path) + 1, Len(reads))
        chain == Chain(file, f.page, Len(file))
        stops(p) == \/ file[p + 1].nextLeaf = INVALID_PAGE
                    \/ \E i \in 1..file[p + 1].numKeys :
                          file[p + 1].keys[i] >= lo /\ file[p + 1].keys[i] > hi
    IN  /\ ~r.st.ub
        /\ SubSeq(reads, 1, Len(f.path)) = f.path
        /\ Len(walk) >= 1 /\ Len(walk) <= Len(chain) /\ Distinct(walk)
        /\ walk = SubSeq(chain, 1, Len(walk))
        /\ stops(walk[Len(walk)])
        /\ \A i \in 1..(Len(walk) - 1) : ~stops(walk[i])

\* the split propagation of writeData(k, v) reads one page per level of the
\* recorded path, bottom-up, and stops at the first level that has room or at
\* the root
PropagationEnds(k, v) ==
    LET f == findLeafPage(St(0), k)
        w == writeData(St(0), k, v)
        reads == ReadsOf(w.st.log, 1)
        j == Len(reads) - Len(f.path) - 1
        top == f.path[Len(f.path) - j]
    IN  /\ w.ret /\ ~w.st.ub
        /\ j >= 0 /\ j <= Len(f.path) - 1
        /\ reads = f.path \o <<f.page>> \o Upward(f.path, j)
        /\ (j = 0) = (~SplitsLeaf(k) \/ Len(f.path) = 1)
        /\ j >= 1 =>
              /\ \A i \in 1..(j - 1) :
                    file[Upward(f.path, j)[i] + 1].numKeys = INTERNAL_MAX_KEYS
              /\ \/ /\ file[top + 1].numKeys < INTERNAL_MAX_KEYS
                    /\ w.st.file[top + 1].numKeys = file[top + 1].numKeys + 1
                    /\ w.st.hdr.rootPage = m_header.rootPage
                 \/ /\ file[top + 1].numKeys = INTERNAL_MAX_KEYS
                    /\ top = m_header.rootPage
                    /\ w.st.hdr.rootPage # m_header.rootPage

\* C20: Termination.  On a tree built by successful operations every public
\* operation returns: the descent of findLeafPage reaches a leaf after visiting
\* each level once; the walk of readRangeData along nextLeaf reaches
\* INVALID_PAGE or a key > upper; and the upward split propagation of
\* insertInParent stops at a level that absorbs the key or at the root, after
\* at most one step per level of the recorded path.
Termination ==
    Built =>
        /\ \A k \in BoundsOf(limits) : DescentEnds(k)
        /\ \A lo \in BoundsOf(limits), hi \in BoundsOf(limits) : WalkEnds(lo, hi)
        /\ \A k \in KeysOf(limits), v \in Values : PropagationEnds(k, v)
        /\ \A k \in KeysOf(limits) :
              LET f == findLeafPage(St(0), k)
              IN  /\ ~readData(St(0), k).st.ub /\ ~deleteData(St(0), k).st.ub
                  /\ ReadsOf(readData(St(0), k).st.log, 1) = f.path \o <<f.page>>
                  /\ ReadsOf(deleteData(St(0), k).st.log, 1) = f.path \o <<f.page>>

\* a write whose split goes up two levels and is absorbed by the root, and a
\* scan that walks the whole chain of a tree of three levels
TerminationWitness ==
    /\ Built /\ TreeHeight >= 3
    /\ \E k \in KeysOf(limits) :
          LET f == findLeafPage(St(0), k)
              w == writeData(St(0), k, 1)
          IN  /\ w.ret
              /\ ReadsOf(w.st.log, 1) = f.path \o <<f.page>> \o Upward(f.path, 2)
              /\ w.st.hdr.rootPage = m_header.rootPage
    /\ Len(ReadsOf(readRangeData(St(0), 0 - limits.maxKey - 1, limits.maxKey + 1).st.log, 1))
          = TreeHeight + Len(LeavesUnder(file, m_header.rootPage, Len(file)))

\* the file fails header validation: it opens, is not empty, and loadHeader
\* rejects it (page 0 cannot be read whole, or has a wrong magic or page size)
FailsValidation(f) ==
    /\ openFile(f) >= 0
    /\ Len(f) > 0
    /\ ~loadHeader(StOf(f, ZeroHeader, TRUE)).ok

\* the object is constructed on a file that loadHeader rejected
Rejected == alive /\ m_fd >= 0 /\ ~m_ok

\* C21: Invalid file left untouched.  Constructing a tree on a file that fails
\* header validation, calling operations on it and destroying it never changes
\* the file: no step from construction to destruction alters its contents, so
\* the contents after destruction equal the contents before construction.
InvalidFileUntouched ==
    [][((~alive /\ FailsValidation(file)) \/ Rejected) => file' = file]_vars

\* the pages of file f reached from page root through child slots
ReachablePages(f, root) ==
    SeqRange(LeavesUnder(f, root, Len(f))) \cup InternalsUnder(f, root, Len(f))

\* page q of file f names page p as a child or as its nextLeaf
RefersTo(f, q, p) ==
    \/ f[q + 1].kind = "I" /\ p \in SeqRange(f[q + 1].children)
    \/ f[q + 1].kind = "L" /\ f[q + 1].nextLeaf = p

\* writeData(key, data) in which I/O call f fails: the descent and insertInLeaf
\* are over before call f, insertInLeaf has split the leaf (page allocated, both
\* leaves written), and call f is made, by insertInParent
ParentInsertFails(key, data, f) ==
    LET d == findLeafPage(St(f), key)
        l == insertInLeaf(d.st, d.page, key, data)
    IN  /\ m_ok
        /\ d.page # INVALID_PAGE
        /\ l.ok /\ l.newRightPage # INVALID_PAGE
        /\ ~l.st.failed
        /\ writeData(St(f), key, data).st.failed

\* C22: Failed parent insert.  If writeData splits a leaf and the following
\* insertion into the parent fails on I/O, writeData returns false and the
\* freshly allocated page stays unreachable: no page reachable from rootPage
\* names it as a child or as a nextLeaf.
FailedParentInsert ==
    (alive /\ ~Halted /\ faultsLeft > 0) =>
        \A key \in KeysOf(limits), data \in ValuesOf(limits), f \in 1..WriteCalls :
            ParentInsertFails(key, data, f) =>
                LET w == writeData(St(f), key, data)
                    newPage == insertInLeaf(findLeafPage(St(f), key).st,
                                            findLeafPage(St(f), key).page,
                                            key, data).newRightPage
                IN  /\ ~w.ret
                    /\ \A q \in ReachablePages(w.st.file, w.st.hdr.rootPage) :
                          ~RefersTo(w.st.file, q, newPage)

====
